---- MODULE Spec2Model ----
(***************************************************************************)
(* Model of ingest_structure.py: the language router, the three extractor *)
(* tiers, the two-pass orchestrator run_ingestion and the MERGE-based      *)
(* graph writer GraphIngestor.                                             *)
(*                                                                         *)
(* Paths are sequences of components.  A component is a record             *)
(* [stem, ext]; the stem is a sequence of tokens so that a component built *)
(* from an import string (which may hold blanks or quotes) has the same    *)
(* shape as the name of a file on disk.  A path string is a record         *)
(* [abs, comps].  Node keys (File.path, Function.file) are sequences of    *)
(* components, the "/"-joined relative path of the code.                   *)
(***************************************************************************)
EXTENDS Bags, FiniteSets, Integers, Sequences, TLC

(* ------------------------------ bounds -------------------------------- *)

\* invocations of main() in one behaviour
MaxRuns == 2
\* files of the tree that are unreadable or do not parse
MaxFaults == 1

(* ------------------------- values and helpers ------------------------- *)

None == "<None>"

Dir(s) == [stem |-> <<s>>, ext |-> ""]
Name(s, e) == [stem |-> <<s>>, ext |-> e]
UpDir == [stem |-> <<"..">>, ext |-> ""]

Range(s) == {s[i] : i \in 1..Len(s)}

Orders(S) == {s \in [1..Cardinality(S) -> S] : \A i, j \in 1..Cardinality(S) : s[i] = s[j] => i = j}

RECURSIVE Flatten(_)
Flatten(ss) == IF ss = <<>> THEN <<>> ELSE Head(ss) \o Flatten(Tail(ss))

(* ----------------------- Config / Environment ------------------------- *)

\* the process's working directory, as an absolute component sequence
Cwd == <<Dir("w")>>

REPO_ROOT == [abs |-> FALSE, comps |-> <<Dir("repo")>>]

\* values of --repo: the default (REPO_ROOT) or another directory
RepoArgs == {REPO_ROOT, [abs |-> FALSE, comps |-> <<Dir("proj")>>]}

EXT_LANG_MAP == [e \in {".py", ".js", ".jsx", ".ts", ".tsx"} |->
                   CASE e = ".py" -> "python"
                     [] e \in {".js", ".jsx"} -> "javascript"
                     [] OTHER -> "typescript"]

\* keys of LANGUAGE_PARSERS: every language of the table except python
ParserLangs == {EXT_LANG_MAP[e] : e \in DOMAIN EXT_LANG_MAP} \ {"python"}

\* str.lower() on the extensions and the decorator names that occur
Lower(e) == CASE e = ".PY" -> ".py"
              [] e = ".TXT" -> ".txt"
              [] e = "GET" -> "get"
              [] e = "Post" -> "post"
              [] OTHER -> e

(* ------------------------------ os.path ------------------------------- *)

join(a, b) == IF b.abs THEN b ELSE [abs |-> a.abs, comps |-> a.comps \o b.comps]

\* os.path.abspath: absolute component sequence, empty components dropped
abspath(p) ==
  LET full == IF p.abs THEN p.comps ELSE Cwd \o p.comps
  IN SelectSeq(full, LAMBDA c : ~(c.stem = <<>> /\ c.ext = ""))

RECURSIVE CommonLen(_, _)
CommonLen(a, b) ==
  IF a = <<>> \/ b = <<>> \/ Head(a) # Head(b) THEN 0
  ELSE 1 + CommonLen(Tail(a), Tail(b))

\* os.path.relpath(path, start).replace(os.sep, "/")
relpath(path, start) ==
  LET p == abspath(path)
      s == abspath(start)
      c == CommonLen(p, s)
  IN [i \in 1..(Len(s) - c) |-> UpDir] \o SubSeq(p, c + 1, Len(p))

basename(p) == p.comps[Len(p.comps)]

\* os.path.splitext(name)[1]
splitext(p) == basename(p).ext

(* --------------------------- the source tree -------------------------- *)

\* A source file is a sequence of top-level items:
\*   import: text = the statement as the syntax-tree parsers report it
\*           (the dotted module name for Python), clause = the text of its
\*           import clause (<<>> when it has none), module = the quoted
\*           module string the regular expressions capture
\*   def:    name, list = the names called in its body, decos = the attribute
\*           names of its call-style decorators
\*   class:  name, list = its base names
\*   call:   a call outside any function, name = the called name
Item(kind, name, list, decos, text, clause, module) ==
  [kind |-> kind, name |-> name, list |-> list, decos |-> decos, text |-> text,
   clause |-> clause, module |-> module]
Import(text, clause, module) == Item("import", "", <<>>, <<>>, text, clause, module)
Def(name, calls, decos) == Item("def", name, calls, decos, <<>>, <<>>, <<>>)
Class(name, bases) == Item("class", name, bases, <<>>, <<>>, <<>>, <<>>)
Call(name) == Item("call", name, <<>>, <<>>, <<>>, <<>>, <<>>)

A_PY == <<Name("a", ".py")>>
B_PY == <<Name("b", ".py")>>
C_JS == <<Dir("web"), Name("c", ".js")>>
C_TS == <<Dir("web"), Name("c", ".ts")>>
NOTES == <<Dir("docs"), Name("notes", ".txt")>>

\* paths of the files of the tree, relative to the walked root
TreeFiles == {A_PY, B_PY, C_JS, C_TS, NOTES}

\* a file outside the tree, at the root of the filesystem: /lib.js
OutsideFiles == {<<Name("lib", ".js")>>}

Src(rel) ==
  CASE rel = A_PY ->
         << Def("helper", <<>>, <<>>),
            Def("run", <<"helper">>, <<>>),
            Class("Base", <<>>) >>
    [] rel = B_PY ->
         << Import(<<"web", ".", "c">>, <<>>, <<>>),
            Import(<<"os">>, <<>>, <<>>),
            Def("main", <<"helper", "run", "print">>, <<"cache", "GET">>),
            Def("run", <<>>, <<>>),
            Class("Child", <<"Base">>) >>
    [] rel = C_JS ->
         << Import(<<"import", " ", "lib", " ", "from", " ", "'", ".", "/", "lib", "'", ";">>,
                   <<"lib">>,
                   <<".", "/", "lib">>),
            Def("render", <<"run", "helper">>, <<>>),
            Class("Widget", <<"Base">>),
            Call("render") >>
    [] rel = C_TS ->
         << Def("fmt", <<>>, <<>>) >>
    [] OTHER -> <<>>

\* the identifiers of the tree in the order sorted() gives them
Alphabet == <<"Base", "Child", "Widget", "fmt", "helper", "main", "print", "render", "run">>
\* the module strings of the tree in the order sorted() gives them
ModuleAlphabet == << <<".", "/", "lib">> >>

sorted(S, alphabet) == SelectSeq(alphabet, LAMBDA x : x \in S)

Items(rel, kind) == SelectSeq(Src(rel), LAMBDA it : it.kind = kind)

Map(s, Op(_)) == [i \in 1..Len(s) |-> Op(s[i])]

(* ------------------------------ Parsers ------------------------------- *)

\* a parser's result: <<record>>, or <<>> for Python's None
Some(rec) == <<rec>>
Nothing == <<>>

Record(file, functions, classes, imports, function_calls, endpoints) ==
  [file |-> file, functions |-> functions, classes |-> classes, imports |-> imports,
   function_calls |-> function_calls, endpoints |-> endpoints]

HttpMethods == {"get", "post", "put", "delete", "patch"}

\* the file a full path denotes: its path below the walked root
\* (full paths are always os.path.join(root, fname) of the walk)
RelOf(filepath, repo_root) == SubSeq(filepath.comps, Len(repo_root.comps) + 1, Len(filepath.comps))

file_info(filepath, base) == [path |-> relpath(filepath, base), name |-> basename(filepath)]

parse_python_file(filepath, rel, state) ==
  IF state = "unreadable" THEN Nothing
  ELSE IF state = "syntax_error" THEN Nothing
  ELSE
    LET rel_path == relpath(filepath, REPO_ROOT)
        defs == Items(rel, "def")
    IN Some(Record(
         file_info(filepath, REPO_ROOT),
         Map(defs, LAMBDA d : [name |-> d.name, file |-> rel_path]),
         Map(Items(rel, "class"), LAMBDA c : [name |-> c.name, bases |-> c.list, file |-> rel_path]),
         Map(Items(rel, "import"), LAMBDA i : i.text),
         Flatten(Map(defs, LAMBDA d :
           Map(d.list, LAMBDA called :
             [caller |-> d.name, caller_file |-> rel_path, called |-> called, called_file |-> None]))),
         Flatten(Map(defs, LAMBDA d :
           Map(SelectSeq(d.decos, LAMBDA dec : Lower(dec) \in HttpMethods), LAMBDA dec :
             [name |-> d.name, file |-> rel_path, decorator |-> Lower(dec)])))))

\* str.strip() on a token sequence: blanks off both ends
RECURSIVE lstrip(_)
lstrip(t) == IF t # <<>> /\ Head(t) = " " THEN lstrip(Tail(t)) ELSE t
RECURSIVE rstrip(_, _)
rstrip(t, ch) == IF t # <<>> /\ t[Len(t)] = ch THEN rstrip(SubSeq(t, 1, Len(t) - 1), ch) ELSE t
strip(t) == rstrip(lstrip(t), " ")

\* result and the new SKIPPED_COUNTS
parse_with_treesitter(filepath, rel, state, lang_key, parsers, skipped) ==
  IF parsers[lang_key] = None
  THEN [res |-> Nothing, skipped |-> [skipped EXCEPT ![lang_key] = @ + 1]]
  ELSE IF state = "unreadable" THEN [res |-> Nothing, skipped |-> skipped]
  ELSE IF state = "syntax_error" THEN [res |-> Nothing, skipped |-> skipped]
  ELSE
    LET rel_path == relpath(filepath, REPO_ROOT)
        defs == Items(rel, "def")
    IN [res |-> Some(Record(
          file_info(filepath, REPO_ROOT),
          Map(defs, LAMBDA d : [name |-> d.name, file |-> rel_path]),
          Map(Items(rel, "class"), LAMBDA c : [name |-> c.name, bases |-> c.list, file |-> rel_path]),
          \* the statement node, then its import clause node
          Flatten(Map(Items(rel, "import"), LAMBDA i :
            <<strip(i.text)>> \o (IF i.clause = <<>> THEN <<>> ELSE <<strip(i.clause)>>))),
          \* a call is kept only when an enclosing named function is found
          Flatten(Map(defs, LAMBDA d :
            Map(d.list, LAMBDA called :
              [caller |-> d.name, caller_file |-> rel_path, called |-> called, called_file |-> None]))),
          <<>>)),
        skipped |-> skipped]

\* every match of the call pattern, in source order: a declaration
\* "function f(" matches as well as the calls of its body
CallMatches(rel) ==
  Flatten(Map(Src(rel), LAMBDA it :
    CASE it.kind = "def" -> <<it.name>> \o it.list
      [] it.kind = "call" -> <<it.name>>
      [] OTHER -> <<>>))

parse_js_like_file(filepath, rel, state, lang_key) ==
  IF state = "unreadable" THEN Nothing
  ELSE
    LET rel_path == relpath(filepath, REPO_ROOT)
        functions_set == {it.name : it \in Range(Items(rel, "def"))}
        classes_set == {it.name : it \in Range(Items(rel, "class"))}
        imports_set == {it.module : it \in Range(Items(rel, "import"))}
    IN Some(Record(
         file_info(filepath, REPO_ROOT),
         Map(sorted(functions_set, Alphabet), LAMBDA n : [name |-> n, file |-> rel_path]),
         Map(sorted(classes_set, Alphabet), LAMBDA n : [name |-> n, bases |-> <<>>, file |-> rel_path]),
         sorted(imports_set, ModuleAlphabet),
         Map(CallMatches(rel), LAMBDA n :
           [caller |-> None, caller_file |-> rel_path, called |-> n, called_file |-> None]),
         <<>>))

\* mutant: what the grammar-based extractor returns is final
parse_any_file_no_fallback(filepath, rel, state, parsers, skipped) ==
  LET ext == Lower(splitext(filepath))
      lang_key == IF ext \in DOMAIN EXT_LANG_MAP THEN EXT_LANG_MAP[ext] ELSE None
  IN IF lang_key = None THEN [res |-> Nothing, skipped |-> skipped]
     ELSE IF lang_key = "python"
     THEN [res |-> parse_python_file(filepath, rel, state), skipped |-> skipped]
     ELSE IF parsers[lang_key] # None
     THEN parse_with_treesitter(filepath, rel, state, lang_key, parsers, skipped)
     ELSE [res |-> parse_js_like_file(filepath, rel, state, lang_key), skipped |-> skipped]

\* result and the new SKIPPED_COUNTS
parse_any_file(filepath, rel, state, parsers, skipped) ==
  LET ext == Lower(splitext(filepath))
      lang_key == IF ext \in DOMAIN EXT_LANG_MAP THEN EXT_LANG_MAP[ext] ELSE None
  IN IF lang_key = None THEN [res |-> Nothing, skipped |-> skipped]
     ELSE IF lang_key = "python"
     THEN [res |-> parse_python_file(filepath, rel, state), skipped |-> skipped]
     ELSE
       LET ts == IF parsers[lang_key] # None
                 THEN parse_with_treesitter(filepath, rel, state, lang_key, parsers, skipped)
                 ELSE [res |-> Nothing, skipped |-> skipped]
       IN IF ts.res # Nothing THEN ts
          ELSE [res |-> parse_js_like_file(filepath, rel, state, lang_key), skipped |-> ts.skipped]

(* -------------------------- Neo4j Ingestion --------------------------- *)

\* The store is a bag of nodes, a bag of relationships and the name property
\* of the File nodes.  Every node has the same shape; a File node is keyed by
\* file (its path) alone.
Node(label, name, file, decorator) ==
  [label |-> label, name |-> name, file |-> file, decorator |-> decorator]
FileNode(path) == Node("File", "", path, "")
FunctionNode(name, file) == Node("Function", name, file, "")
ClassNode(name, file) == Node("Class", name, file, "")
EndpointNode(name, file, decorator) == Node("Endpoint", name, file, decorator)
Edge(type, from, to) == [type |-> type, from |-> from, to |-> to]

EmptyGraph == [nodes |-> EmptyBag, edges |-> EmptyBag, names |-> <<>>]

\* mutant: CREATE, a blind insert
BlindInsert(bag, x) == bag (+) SetToBag({x})

\* Cypher MERGE: match the pattern, create it only when nothing matches
Merge(bag, x) == IF BagIn(x, bag) THEN bag ELSE bag (+) SetToBag({x})

MergeNode(g, n) == [g EXCEPT !.nodes = Merge(g.nodes, n)]
MergeEdge(g, type, a, b) == [g EXCEPT !.edges = Merge(g.edges, Edge(type, a, b))]

\* SET f.name = $name on the matched File node
SetName(g, path, name) ==
  [g EXCEPT !.names = [p \in (DOMAIN g.names) \cup {path} |-> IF p = path THEN name ELSE g.names[p]]]

\* None where a file is expected
NoneFile == <<Dir(None)>>

\* "x or ''" on a file argument: None becomes the empty-string sentinel
OrEmpty(file) == IF file = NoneFile \/ file = <<>> THEN <<>> ELSE file

ingest_file(g, info) == SetName(MergeNode(g, FileNode(info.path)), info.path, info.name)

ingest_class(g, name, file) ==
  LET c == ClassNode(name, file)
      f == FileNode(file)
  IN MergeEdge(MergeNode(MergeNode(g, c), f), "DEFINED_IN", c, f)

ingest_function(g, name, file) ==
  LET fun == FunctionNode(name, file)
      f == FileNode(file)
  IN MergeEdge(MergeNode(MergeNode(g, fun), f), "DEFINED_IN", fun, f)

ingest_import(g, from_file, to_file_path) ==
  IF to_file_path = <<>> THEN g
  ELSE LET f1 == FileNode(from_file)
           f2 == FileNode(to_file_path)
       IN MergeEdge(MergeNode(MergeNode(g, f1), f2), "IMPORTS", f1, f2)

ingest_function_call(g, caller, caller_file, called, called_file) ==
  LET funA == FunctionNode(caller, caller_file)
      funB == FunctionNode(called, OrEmpty(called_file))
  IN MergeEdge(MergeNode(MergeNode(g, funA), funB), "CALLS", funA, funB)

ingest_function_used_in(g, called, called_file, used_in_file) ==
  LET fun == FunctionNode(called, OrEmpty(called_file))
      f == FileNode(used_in_file)
  IN MergeEdge(MergeNode(MergeNode(g, fun), f), "USED_IN", fun, f)

ingest_endpoint(g, name, file, decorator) ==
  LET e == EndpointNode(name, file, decorator)
      fun == FunctionNode(name, file)
  IN MergeEdge(MergeNode(MergeNode(g, e), fun), "HANDLED_BY", e, fun)

\* mutant: the relationship is merged without merging the parent node
ingest_class_extends_no_parent(g, child_name, child_file, parent_name, parent_file) ==
  LET child == ClassNode(child_name, child_file)
      parent == ClassNode(parent_name, OrEmpty(parent_file))
  IN MergeEdge(MergeNode(g, child), "EXTENDS", child, parent)

ingest_class_extends(g, child_name, child_file, parent_name, parent_file) ==
  LET child == ClassNode(child_name, child_file)
      parent == ClassNode(parent_name, OrEmpty(parent_file))
  IN MergeEdge(MergeNode(MergeNode(g, child), parent), "EXTENDS", child, parent)

CountNodes(g, label) == BagCardinality([n \in {m \in BagToSet(g.nodes) : m.label = label} |-> g.nodes[n]])
CountEdges(g, type) == BagCardinality([e \in {d \in BagToSet(g.edges) : d.type = type} |-> g.edges[e]])

print_summary_counts(g) ==
  [calls |-> CountEdges(g, "CALLS"), used_in |-> CountEdges(g, "USED_IN"),
   extends |-> CountEdges(g, "EXTENDS"), imports |-> CountEdges(g, "IMPORTS"),
   files |-> CountNodes(g, "File"), funcs |-> CountNodes(g, "Function"),
   classes |-> CountNodes(g, "Class")]

(* ------------------------- Ingestion Runner --------------------------- *)

\* the absolute paths of the files that exist when the tree is at repo_root
Disk(repo_root) == {abspath(join(repo_root, [abs |-> FALSE, comps |-> rel])) : rel \in TreeFiles}
                     \cup OutsideFiles

isfile(p, repo_root) == abspath(p) \in Disk(repo_root)

\* str.replace(".", "/") on a token sequence
replace_dots(t) == [i \in 1..Len(t) |-> IF t[i] = "." THEN "/" ELSE t[i]]

\* the token groups between separators
RECURSIVE Split(_, _)
Split(t, cur) ==
  IF t = <<>> THEN <<cur>>
  ELSE IF Head(t) = "/" THEN <<cur>> \o Split(Tail(t), <<>>)
  ELSE Split(Tail(t), Append(cur, Head(t)))

\* the path string candidate + e
CandidatePath(candidate, e) ==
  LET groups == Split(candidate, <<>>)
  IN [abs |-> candidate # <<>> /\ Head(candidate) = "/",
      comps |-> [i \in 1..Len(groups) |->
                   [stem |-> groups[i], ext |-> IF i = Len(groups) THEN e ELSE ""]]]

ProbeExts == <<".py", ".js", ".ts", ".jsx", ".tsx">>

\* to_path of an import string: <<>> when no probe names a file
ImportTarget(imp, repo_root) ==
  LET imp_clean == strip(rstrip(strip(imp), ";"))
      candidate == replace_dots(imp_clean)
      cand(e) == join(repo_root, CandidatePath(candidate, e))
      hits == SelectSeq(ProbeExts, LAMBDA e : isfile(cand(e), repo_root))
  IN IF hits = <<>> THEN <<>> ELSE relpath(cand(Head(hits)), repo_root)

\* mutant: a called name the table does not hold is left unresolved
ResolvedNoFallback(table, fc) ==
  IF fc.called \in DOMAIN table /\ table[fc.called] # <<>>
  THEN table[fc.called] ELSE NoneFile

\* mutant: every call is taken to be local to the caller's file
ResolvedLocal(table, fc) == fc.caller_file

\* func_name_to_file.get(called) or caller_file
Resolved(table, fc) ==
  IF fc.called \in DOMAIN table /\ table[fc.called] # <<>>
  THEN table[fc.called] ELSE fc.caller_file

\* mutant: the functions of a record are not entered in the table
KeepTable(table, functions) == table

\* mutant: the first definition of a name is kept
RECURSIVE UpdateTableFirstWins(_, _)
UpdateTableFirstWins(table, functions) ==
  IF functions = <<>> THEN table
  ELSE LET fun == Head(functions)
       IN UpdateTableFirstWins([n \in (DOMAIN table) \cup {fun.name} |->
                                  IF n \in DOMAIN table THEN table[n] ELSE fun.file],
                               Tail(functions))

\* func_name_to_file[fun["name"]] = fun["file"] for every function of a record
RECURSIVE UpdateTable(_, _)
UpdateTable(table, functions) ==
  IF functions = <<>> THEN table
  ELSE LET fun == Head(functions)
       IN UpdateTable([n \in (DOMAIN table) \cup {fun.name} |->
                         IF n = fun.name THEN fun.file ELSE table[n]],
                      Tail(functions))

\* the record the walk builds when parse_any_file returns None
Degenerate(full, repo_root) == Record(file_info(full, repo_root), <<>>, <<>>, <<>>, <<>>, <<>>)

\* one call of the ingestor
Write(op, name, file, name2, file2, decorator, base) ==
  [op |-> op, name |-> name, file |-> file, name2 |-> name2, file2 |-> file2,
   decorator |-> decorator, base |-> base]

NoBase == Dir("")

ClassWrites(cls) ==
  <<Write("ingest_class", cls.name, cls.file, "", <<>>, "", NoBase)>> \o
  Map(SelectSeq(cls.bases, LAMBDA b : b # ""), LAMBDA b :
    Write("ingest_class_extends", cls.name, cls.file, b, NoneFile, "", NoBase))

ImportWrites(parsed, repo_root) ==
  Map(SelectSeq(Map(parsed.imports, LAMBDA imp : ImportTarget(imp, repo_root)),
                LAMBDA to_path : to_path # <<>>),
      LAMBDA to_path : Write("ingest_import", "", parsed.file.path, "", to_path, "", NoBase))

\* mutant: a CALLS edge is written whether or not the caller is known
CallWritesAlways(fc, table) ==
  LET resolved_called_file == Resolved(table, fc)
  IN <<Write("ingest_function_call", fc.caller, fc.caller_file, fc.called,
             resolved_called_file, "", NoBase),
       Write("ingest_function_used_in", fc.called, resolved_called_file, "",
             fc.caller_file, "", NoBase)>>

\* mutant: a call site with a known caller gets its CALLS edge only
CallWritesNoUsedIn(fc, table) ==
  LET resolved_called_file == Resolved(table, fc)
  IN IF fc.caller # None
     THEN <<Write("ingest_function_call", fc.caller, fc.caller_file, fc.called,
                  resolved_called_file, "", NoBase)>>
     ELSE <<Write("ingest_function_used_in", fc.called, resolved_called_file, "",
                  fc.caller_file, "", NoBase)>>

CallWrites(fc, table) ==
  LET resolved_called_file == Resolved(table, fc)
  IN (IF fc.caller # None
      THEN <<Write("ingest_function_call", fc.caller, fc.caller_file, fc.called,
                   resolved_called_file, "", NoBase)>>
      ELSE <<>>) \o
     <<Write("ingest_function_used_in", fc.called, resolved_called_file, "",
             fc.caller_file, "", NoBase)>>

\* the calls of the ingestor the second pass makes for one record, in order
RecordWrites(parsed, table, repo_root) ==
  <<Write("ingest_file", "", parsed.file.path, "", <<>>, "", parsed.file.name)>> \o
  Flatten(Map(parsed.classes, ClassWrites)) \o
  Map(parsed.functions, LAMBDA fun : Write("ingest_function", fun.name, fun.file, "", <<>>, "", NoBase)) \o
  Map(parsed.endpoints, LAMBDA ep : Write("ingest_endpoint", ep.name, ep.file, "", <<>>, ep.decorator, NoBase)) \o
  ImportWrites(parsed, repo_root) \o
  Flatten(Map(parsed.function_calls, LAMBDA fc : CallWrites(fc, table)))

\* the store after one call of the ingestor
Apply(g, w) ==
  CASE w.op = "ingest_file" -> ingest_file(g, [path |-> w.file, name |-> w.base])
    [] w.op = "ingest_class" -> ingest_class(g, w.name, w.file)
    [] w.op = "ingest_class_extends" -> ingest_class_extends(g, w.name, w.file, w.name2, w.file2)
    [] w.op = "ingest_function" -> ingest_function(g, w.name, w.file)
    [] w.op = "ingest_endpoint" -> ingest_endpoint(g, w.name, w.file, w.decorator)
    [] w.op = "ingest_import" -> ingest_import(g, w.file, w.file2)
    [] w.op = "ingest_function_call" -> ingest_function_call(g, w.name, w.file, w.name2, w.file2)
    [] w.op = "ingest_function_used_in" -> ingest_function_used_in(g, w.name, w.file, w.file2)

\* the store after a sequence of calls
RECURSIVE ApplyAll(_, _)
ApplyAll(g, writes) == IF writes = <<>> THEN g ELSE ApplyAll(Apply(g, Head(writes)), Tail(writes))

\* The store outlives the runs.  It starts with what an earlier run over an
\* earlier version of the tree left in it: a file old.py that is gone since,
\* its function, and its import of a.py.
OLD_PY == <<Name("old", ".py")>>
InitialGraph ==
  ingest_import(
    ingest_function(
      ingest_file(EmptyGraph, [path |-> OLD_PY, name |-> Name("old", ".py")]),
      "gone", OLD_PY),
    OLD_PY, A_PY)

(* ------------------------------- state -------------------------------- *)

VARIABLES
  repo_root,          \* args.repo
  dry_run,            \* args.dry_run
  LANGUAGE_PARSERS,   \* lang_key -> "parser" or None, as loaded at import time
  SKIPPED_COUNTS,     \* lang_key -> count
  fstate,             \* file -> "ok" | "unreadable" | "syntax_error"
  walk,               \* the order in which os.walk yields the files
  pc,                 \* "walk" | "ingest" | "done"
  i,                  \* next file of the walk
  func_name_to_file,
  parsed_all,
  j,                  \* next record of the second pass
  graph,              \* the store
  before,             \* the store before the calls made for the last record
  log,                \* the calls of the ingestor this run has made
  summary,            \* the counts main() printed: <<>> or <<counts>>
  prev_table,         \* func_name_to_file as the previous run left it
  runs,               \* invocations of main() so far
  fullRuns,           \* completed runs without --dry-run
  graphAtStart,       \* the store when the current run began
  failed              \* the call of the ingestor that raised: <<>> or <<[rec, write]>>

vars == <<repo_root, dry_run, LANGUAGE_PARSERS, SKIPPED_COUNTS, fstate, walk, pc, i,
          func_name_to_file, parsed_all, j, graph, before, log, summary, prev_table, runs,
          fullRuns, graphAtStart, failed>>

\* the arguments and the environment of a run: they do not change
config == <<repo_root, dry_run, LANGUAGE_PARSERS, fstate, walk>>

FileStates == {"ok", "unreadable", "syntax_error"}

\* the directory of a file and the files of a directory
DirOf(rel) == SubSeq(rel, 1, Len(rel) - 1)
FilesIn(dir) == {f \in TreeFiles : DirOf(f) = dir}
SubDirs == {DirOf(f) : f \in TreeFiles} \ {<<>>}

\* the files of each directory of ds, each in some listing order
RECURSIVE Listings(_)
Listings(ds) ==
  IF ds = <<>> THEN {<<>>}
  ELSE {l \o rest : l \in Orders(FilesIn(Head(ds))), rest \in Listings(Tail(ds))}

\* os.walk is top-down: the files of the root in listing order, then each
\* sub-directory in listing order, its files in listing order
WalkOrders == UNION {Listings(<<<<>>>> \o ds) : ds \in Orders(SubDirs)}

FullPath(rel) == join(repo_root, [abs |-> FALSE, comps |-> rel])

\* mutant: the extension filter of the walk lets every file through
AnyExtension(rel) == TRUE

\* os.path.splitext(fname)[1].lower() in EXT_LANG_MAP
Recognized(rel) == Lower(rel[Len(rel)].ext) \in DOMAIN EXT_LANG_MAP

\* the files the run opens
Opened == {f \in TreeFiles : Lower(f[Len(f)].ext) \in DOMAIN EXT_LANG_MAP}

Init ==
  /\ repo_root \in RepoArgs
  /\ dry_run \in BOOLEAN
  /\ LANGUAGE_PARSERS \in [ParserLangs -> {"parser", None}]
  /\ SKIPPED_COUNTS = [l \in ParserLangs |-> 0]
  /\ fstate \in {fs \in [TreeFiles -> FileStates] :
                   /\ Cardinality({f \in TreeFiles : fs[f] # "ok"}) <= MaxFaults
                   /\ \A f \in TreeFiles \ Opened : fs[f] = "ok"}
  /\ walk \in WalkOrders
  /\ pc = "walk"
  /\ i = 1
  /\ func_name_to_file = <<>>
  /\ parsed_all = <<>>
  /\ j = 1
  /\ graph = InitialGraph
  /\ before = graph
  /\ log = <<>>
  /\ summary = <<>>
  /\ prev_table = <<>>
  /\ runs = 1
  /\ fullRuns = 0
  /\ graphAtStart = graph
  /\ failed = <<>>

(* first pass *)

\* a file whose extension is not in EXT_LANG_MAP is passed over
WalkSkip ==
  /\ pc = "walk"
  /\ i <= Len(walk)
  /\ ~Recognized(walk[i])
  /\ i' = i + 1
  /\ UNCHANGED <<config, SKIPPED_COUNTS, pc, func_name_to_file, parsed_all, j, graph, before,
                 log, summary, prev_table, runs, fullRuns, graphAtStart, failed>>

WalkParse ==
  /\ pc = "walk"
  /\ i <= Len(walk)
  /\ Recognized(walk[i])
  /\ LET full == FullPath(walk[i])
         r == parse_any_file(full, walk[i], fstate[walk[i]], LANGUAGE_PARSERS, SKIPPED_COUNTS)
         parsed == IF r.res = Nothing THEN Degenerate(full, repo_root) ELSE r.res[1]
     IN /\ SKIPPED_COUNTS' = r.skipped
        /\ parsed_all' = Append(parsed_all, parsed)
        /\ func_name_to_file' = UpdateTable(func_name_to_file, parsed.functions)
  /\ i' = i + 1
  /\ UNCHANGED <<config, pc, j, graph, before, log, summary, prev_table, runs, fullRuns,
                 graphAtStart, failed>>

\* the walk is exhausted: the second loop starts
WalkEnd ==
  /\ pc = "walk"
  /\ i > Len(walk)
  /\ pc' = "ingest"
  /\ j' = 1
  /\ UNCHANGED <<config, SKIPPED_COUNTS, i, func_name_to_file, parsed_all, graph, before, log,
                 summary, prev_table, runs, fullRuns, graphAtStart, failed>>

(* second pass *)

\* with --dry-run the record is printed and the loop continues
DryRunRecord ==
  /\ pc = "ingest"
  /\ j <= Len(parsed_all)
  /\ dry_run
  /\ j' = j + 1
  /\ UNCHANGED <<config, SKIPPED_COUNTS, pc, i, func_name_to_file, parsed_all, graph, before,
                 log, summary, prev_table, runs, fullRuns, graphAtStart, failed>>

\* the body of the second loop for record j: every call of the ingestor, in order
DoIngestRecord ==
  /\ pc = "ingest"
  /\ j <= Len(parsed_all)
  /\ LET writes == RecordWrites(parsed_all[j], func_name_to_file, repo_root)
     IN /\ graph' = ApplyAll(graph, writes)
        /\ before' = graph
        /\ log' = log \o writes
  /\ j' = j + 1
  /\ UNCHANGED <<config, SKIPPED_COUNTS, pc, i, func_name_to_file, parsed_all, summary,
                 prev_table, runs, fullRuns, graphAtStart, failed>>

\* mutant: the second pass writes whether or not --dry-run is given
IngestRecordIgnoringDryRun == DoIngestRecord

\* without --dry-run the second pass calls the ingestor
IngestRecord == ~dry_run /\ DoIngestRecord

\* run_ingestion returns; main() prints the summary counts unless --dry-run
Finish ==
  /\ pc = "ingest"
  /\ j > Len(parsed_all)
  /\ pc' = "done"
  /\ summary' = IF dry_run THEN <<>> ELSE <<print_summary_counts(graph)>>
  /\ fullRuns' = IF dry_run THEN fullRuns ELSE fullRuns + 1
  /\ UNCHANGED <<config, SKIPPED_COUNTS, i, func_name_to_file, parsed_all, j, graph, before,
                 log, prev_table, runs, graphAtStart, failed>>

\* main() is invoked again with the same arguments on the unchanged tree
Rerun ==
  /\ pc = "done"
  /\ runs < MaxRuns
  /\ runs' = runs + 1
  /\ SKIPPED_COUNTS' = [l \in ParserLangs |-> 0]
  /\ pc' = "walk"
  /\ i' = 1
  /\ func_name_to_file' = <<>>
  /\ parsed_all' = <<>>
  /\ j' = 1
  /\ before' = graph
  /\ log' = <<>>
  /\ summary' = <<>>
  /\ graphAtStart' = graph
  /\ prev_table' = func_name_to_file
  /\ UNCHANGED <<config, graph, fullRuns, failed>>

Next == WalkSkip \/ WalkParse \/ WalkEnd \/ DryRunRecord \/ IngestRecord \/ Finish \/ Rerun

Spec == Init /\ [][Next]_vars

(* a run whose store can refuse a write *)

\* session.run raises during one of the calls made for record j: the calls
\* before it have been made, the exception leaves the call, the loop and
\* run_ingestion (nothing catches it), main() closes the driver in its
\* finally clause and the process ends with the exception
WriteFails ==
  /\ pc = "ingest"
  /\ j <= Len(parsed_all)
  /\ ~dry_run
  /\ LET writes == RecordWrites(parsed_all[j], func_name_to_file, repo_root)
     IN \E k \in 1..Len(writes) :
          /\ graph' = ApplyAll(graph, SubSeq(writes, 1, k - 1))
          /\ before' = graph
          /\ log' = log \o SubSeq(writes, 1, k - 1)
          /\ failed' = <<[rec |-> j, write |-> writes[k]]>>
  /\ pc' = "aborted"
  /\ UNCHANGED <<config, SKIPPED_COUNTS, i, func_name_to_file, parsed_all, j, summary,
                 prev_table, runs, fullRuns, graphAtStart>>

\* one invocation of main() without --dry-run
InitW == Init /\ ~dry_run

NextW == WalkSkip \/ WalkParse \/ WalkEnd \/ IngestRecord \/ WriteFails \/ Finish

SpecW == InitW /\ [][NextW]_vars

(* ------------------------------ properties ---------------------------- *)

\* runs without --dry-run that completed before the current run began
PriorFullRuns == IF pc = "done" /\ ~dry_run THEN fullRuns - 1 ELSE fullRuns

\* the calls made for the last record, and the store after each of them
LastWrites ==
  IF pc \in {"ingest", "done"} /\ j > 1 /\ ~dry_run
  THEN RecordWrites(parsed_all[j - 1], func_name_to_file, repo_root)
  ELSE <<>>
RECURSIVE Stores(_, _)
Stores(g, writes) ==
  IF writes = <<>> THEN <<>>
  ELSE <<Apply(g, Head(writes))>> \o Stores(Apply(g, Head(writes)), Tail(writes))
Trail == Stores(before, LastWrites)

\* C1 (idempotence): once a full run has completed, a further full run over
\* the unchanged tree never changes the store: at every point of it the
\* nodes, the relationships and the File names are those the run started
\* with, and the summary counts it prints are those of the store it started
\* with.
C1_Idempotence ==
  (PriorFullRuns >= 1 /\ ~dry_run) =>
    /\ graph = graphAtStart
    /\ \A m \in 1..Len(Trail) : Trail[m] = graphAtStart
    /\ pc = "done" => summary = <<print_summary_counts(graphAtStart)>>

C1_Witness ==
  /\ pc = "done"
  /\ ~dry_run
  /\ fullRuns >= 2
  /\ Len(log) > 10
  /\ BagCardinality(graph.edges) > 10

\* the absolute path a key denotes when read relative to base
RECURSIVE Normalize(_, _)
Normalize(done, rest) ==
  IF rest = <<>> THEN done
  ELSE IF Head(rest) = UpDir
       THEN Normalize(SubSeq(done, 1, Len(done) - 1), Tail(rest))
       ELSE Normalize(Append(done, Head(rest)), Tail(rest))
Denotes(key, base) == Normalize(<<>>, abspath(base) \o key)

AbsOf(rel) == abspath(FullPath(rel))

\* the File nodes of a store whose key names the file rel, read relative to
\* the walked root or to REPO_ROOT
FileNodesOf(g, rel) ==
  {n \in BagToSet(g.nodes) :
     /\ n.label = "File"
     /\ (Denotes(n.file, repo_root) = AbsOf(rel) \/ Denotes(n.file, REPO_ROOT) = AbsOf(rel))}

NamesFile(key, rel) == Denotes(key, repo_root) = AbsOf(rel) \/ Denotes(key, REPO_ROOT) = AbsOf(rel)

\* C3 (skip correctness): a file whose extension is not in the extension
\* table has no record, no symbol-table entry and no File node, and no call
\* of the ingestor names it as a file.
C3_SkipCorrectness ==
  \A f \in TreeFiles :
    Lower(f[Len(f)].ext) \notin DOMAIN EXT_LANG_MAP =>
      /\ \A n \in 1..Len(parsed_all) : ~NamesFile(parsed_all[n].file.path, f)
      /\ \A name \in DOMAIN func_name_to_file : ~NamesFile(func_name_to_file[name], f)
      /\ FileNodesOf(graph, f) = {}
      /\ \A m \in 1..Len(log) : ~NamesFile(log[m].file, f) /\ ~NamesFile(log[m].file2, f)

C3_Witness ==
  /\ pc = "done"
  /\ ~dry_run
  /\ \E n \in 1..Len(walk) : Lower(walk[n][Len(walk[n])].ext) \notin DOMAIN EXT_LANG_MAP
  /\ Len(parsed_all) = Cardinality(TreeFiles) - 1
  /\ Len(log) > 10

\* C9 (dry run): with --dry-run the first pass still builds a record for
\* every recognized file, no call of the ingestor is made, the store is the
\* one the run started with, and no summary count is queried.
C9_DryRun ==
  dry_run =>
    /\ log = <<>>
    /\ before = graphAtStart
    /\ graph = graphAtStart
    /\ summary = <<>>
    /\ pc \in {"ingest", "done"} =>
         /\ Len(parsed_all) = Cardinality({f \in TreeFiles : Recognized(f)})
         /\ \A f \in TreeFiles : Recognized(f) =>
              \E n \in 1..Len(parsed_all) : NamesFile(parsed_all[n].file.path, f)

C9_Witness ==
  /\ dry_run
  /\ pc = "done"
  /\ Len(parsed_all) = 4
  /\ DOMAIN func_name_to_file # {}
  /\ BagCardinality(graph.nodes) > 0

\* both ends of every relationship of a store are nodes of it
NoDangling(g) ==
  \A e \in BagToSet(g.edges) : BagIn(e.from, g.nodes) /\ BagIn(e.to, g.nodes)

EdgeTypes(g) == {e.type : e \in BagToSet(g.edges)}

\* C10 (no dangling edges): in the store, after every single call of the
\* ingestor, both ends of every relationship are nodes of the store.
C10_NoDanglingEdges ==
  /\ NoDangling(graph)
  /\ \A m \in 1..Len(Trail) : NoDangling(Trail[m])

C10_Witness ==
  /\ pc = "done"
  /\ EdgeTypes(graph) = {"DEFINED_IN", "IMPORTS", "CALLS", "USED_IN", "HANDLED_BY", "EXTENDS"}

(* records and the files they come from *)

\* the walked files that yield a record, in order: record n is of RecFiles[n]
RecFiles == SelectSeq(walk, LAMBDA f : Lower(f[Len(f)].ext) \in DOMAIN EXT_LANG_MAP)

Lang(f) == EXT_LANG_MAP[Lower(f[Len(f)].ext)]

\* the key the extractors give a file, and the key the walk gives it
ExtractorKey(f) == relpath(FullPath(f), REPO_ROOT)
TreeKey(f) == relpath(FullPath(f), repo_root)

\* the number of File nodes of the store that name f
FileNodeCount(g, f) ==
  BagCardinality([n \in FileNodesOf(g, f) |-> g.nodes[n]])

\* C2 (coverage), as claimed: after a run without --dry-run every recognized
\* file of the tree has exactly one File node, keyed by its path relative
\* to the walked root.
C2_Coverage ==
  (pc = "done" /\ ~dry_run) =>
    \A f \in TreeFiles :
      Recognized(f) =>
        /\ FileNodeCount(graph, f) = 1
        /\ FileNodesOf(graph, f) = {FileNode(TreeKey(f))}

\* the records that define a function named h
DefinersOf(h) ==
  {n \in 1..Len(parsed_all) : \E fun \in Range(parsed_all[n].functions) : fun.name = h}

\* the symbol table of a sequence of records
RECURSIVE TableOf(_, _)
TableOf(table, records) ==
  IF records = <<>> THEN table
  ELSE TableOf(UpdateTable(table, Head(records).functions), Tail(records))

\* C4 (two-pass ordering): no call of the ingestor is made before the walk
\* is over, every recognized file has its record and the symbol table holds
\* the functions of all records; and after a run without --dry-run, a call
\* site with a known caller in file B of a function defined in exactly one
\* file A has its CALLS edge to (called, A) and its USED_IN edge from
\* (called, A) to B, in whatever order the walk visited A and B.
C4_TwoPassOrdering ==
  /\ (log # <<>> \/ pc \in {"ingest", "done"}) =>
       /\ i > Len(walk)
       /\ Len(parsed_all) = Len(RecFiles)
       /\ func_name_to_file = TableOf(<<>>, parsed_all)
  /\ (pc = "done" /\ ~dry_run) =>
       \A nA, nB \in 1..Len(parsed_all) :
         \A fc \in Range(parsed_all[nB].function_calls) :
           (fc.caller # None /\ DefinersOf(fc.called) = {nA}) =>
             LET A == parsed_all[nA].file.path
                 B == parsed_all[nB].file.path
             IN /\ BagIn(Edge("CALLS", FunctionNode(fc.caller, B), FunctionNode(fc.called, A)),
                         graph.edges)
                /\ BagIn(Edge("USED_IN", FunctionNode(fc.called, A), FileNode(B)), graph.edges)

\* the caller's file b.py is walked before a.py, which defines helper
C4_Witness ==
  /\ pc = "done"
  /\ ~dry_run
  /\ walk[1] = B_PY
  /\ BagIn(Edge("CALLS", FunctionNode("main", ExtractorKey(B_PY)),
                FunctionNode("helper", ExtractorKey(A_PY))), graph.edges)
  /\ BagIn(Edge("USED_IN", FunctionNode("helper", ExtractorKey(A_PY)),
                FileNode(ExtractorKey(B_PY))), graph.edges)

\* the grammar of the file's language is not loaded
NoGrammar(f) == Lang(f) \in ParserLangs /\ LANGUAGE_PARSERS[Lang(f)] = None

\* what the heuristic extractor makes of a file, as a record of the walk
Heuristic(f) ==
  LET h == parse_js_like_file(FullPath(f), f, fstate[f], Lang(f))
  IN IF h = Nothing THEN Degenerate(FullPath(f), repo_root) ELSE h[1]

\* C5 (fallback determinism): the record of a file whose grammar is not
\* loaded is the heuristic extractor's; no CALLS edge is written for a call
\* site of that file and the store has none from a function of that file;
\* after a run without --dry-run each of its call sites has its USED_IN edge.
C5_FallbackDeterminism ==
  \A n \in 1..Len(parsed_all) :
    NoGrammar(RecFiles[n]) =>
      LET rec == parsed_all[n]
      IN /\ rec = Heuristic(RecFiles[n])
         /\ \A m \in 1..Len(log) :
              log[m].op = "ingest_function_call" => log[m].file # rec.file.path
         /\ \A e \in BagToSet(graph.edges) : e.type = "CALLS" => e.from.file # rec.file.path
         /\ (pc = "done" /\ ~dry_run) =>
              \A fc \in Range(rec.function_calls) :
                \E m \in 1..Len(log) :
                  /\ log[m].op = "ingest_function_used_in"
                  /\ log[m].name = fc.called
                  /\ log[m].file2 = rec.file.path

C5_Witness ==
  /\ pc = "done"
  /\ ~dry_run
  /\ NoGrammar(C_JS)
  /\ fstate[C_JS] = "ok"
  /\ \E n \in 1..Len(parsed_all) :
       /\ RecFiles[n] = C_JS
       /\ parsed_all[n].functions # <<>>
       /\ parsed_all[n].classes # <<>>
       /\ Len(parsed_all[n].function_calls) >= 3
  /\ \E e \in BagToSet(graph.edges) : e.type = "USED_IN" /\ e.to = FileNode(ExtractorKey(C_JS))

\* the native or the grammar-based parser is applied to the file and throws
NativeThrows(f) == Lang(f) = "python" /\ fstate[f] = "syntax_error"
GrammarThrows(f) == Lang(f) \in ParserLangs /\ ~NoGrammar(f) /\ fstate[f] = "syntax_error"

IsDegenerate(rec) ==
  /\ rec.functions = <<>> /\ rec.classes = <<>> /\ rec.imports = <<>>
  /\ rec.function_calls = <<>> /\ rec.endpoints = <<>>

\* C6 (fallback state machine), as claimed: no parser loaded -> heuristic;
\* the native or the grammar-based parser throws -> heuristic; the
\* degenerate record only when the heuristic extractor fails or the file is
\* unreadable.
C6_FallbackAsClaimed ==
  \A n \in 1..Len(parsed_all) :
    LET f == RecFiles[n]
        rec == parsed_all[n]
    IN /\ NoGrammar(f) => rec = Heuristic(f)
       /\ (NativeThrows(f) \/ GrammarThrows(f)) => rec = Heuristic(f)
       /\ IsDegenerate(rec) => fstate[f] = "unreadable"

\* C6, amended: no grammar loaded -> heuristic; the grammar-based parser
\* throws -> heuristic; the native parser throws, the file is unreadable or
\* the heuristic extractor fails -> the degenerate record, keyed by the path
\* relative to the walked root; a file that is read and parsed has the
\* record of its own extractor, and a file of the tree (none is empty) has
\* the degenerate record in no other case.
C6_FallbackStateMachine ==
  \A n \in 1..Len(parsed_all) :
    LET f == RecFiles[n]
        rec == parsed_all[n]
    IN /\ NoGrammar(f) => rec = Heuristic(f)
       /\ GrammarThrows(f) => rec = Heuristic(f)
       /\ (NativeThrows(f) \/ fstate[f] = "unreadable") =>
            rec = Degenerate(FullPath(f), repo_root)
       /\ fstate[f] = "ok" =>
            rec = CASE Lang(f) = "python" -> parse_python_file(FullPath(f), f, "ok")[1]
                    [] NoGrammar(f) -> Heuristic(f)
                    [] OTHER -> parse_with_treesitter(FullPath(f), f, "ok", Lang(f),
                                                      LANGUAGE_PARSERS, SKIPPED_COUNTS).res[1]
       /\ IsDegenerate(rec) => (NativeThrows(f) \/ fstate[f] = "unreadable")

C6_Witness ==
  /\ pc = "done"
  /\ \E n \in 1..Len(parsed_all) :
       /\ NativeThrows(RecFiles[n])
       /\ Src(RecFiles[n]) # <<>>
       /\ IsDegenerate(parsed_all[n])
  /\ \E n \in 1..Len(parsed_all) : NoGrammar(RecFiles[n]) /\ ~IsDegenerate(parsed_all[n])

\* C7 (ambiguity): once the walk is over, a name defined by two or more
\* records has one table entry, the file of one of them; every call of the
\* ingestor for a call site of that name carries that file; and the entry is
\* the one the previous run had.
C7_Ambiguity ==
  pc \in {"ingest", "done"} =>
    \A h \in {fun.name : fun \in UNION {Range(parsed_all[n].functions) : n \in 1..Len(parsed_all)}} :
      Cardinality(DefinersOf(h)) >= 2 =>
        /\ h \in DOMAIN func_name_to_file
        /\ func_name_to_file[h] \in {parsed_all[n].file.path : n \in DefinersOf(h)}
        /\ \A m \in 1..Len(log) :
             /\ (log[m].op = "ingest_function_call" /\ log[m].name2 = h) =>
                  log[m].file2 = func_name_to_file[h]
             /\ (log[m].op = "ingest_function_used_in" /\ log[m].name = h) =>
                  log[m].file = func_name_to_file[h]
        /\ runs >= 2 => (h \in DOMAIN prev_table /\ prev_table[h] = func_name_to_file[h])

\* run is defined by a.py and b.py; b.py calls it and the entry is a.py
C7_Witness ==
  /\ pc = "done"
  /\ ~dry_run
  /\ runs >= 2
  /\ Cardinality(DefinersOf("run")) >= 2
  /\ func_name_to_file["run"] = ExtractorKey(A_PY)
  /\ \E m \in 1..Len(log) :
       /\ log[m].op = "ingest_function_call"
       /\ log[m].name2 = "run"
       /\ log[m].file = ExtractorKey(B_PY)
       /\ log[m].file2 = ExtractorKey(A_PY)
  /\ \E m \in 1..Len(log) :
       /\ log[m].op = "ingest_function_used_in"
       /\ log[m].name = "run"
       /\ log[m].file2 = ExtractorKey(C_JS)

\* the file under the walked root that an import string names: the cleaned,
\* separator-converted module path plus the first probed extension for which
\* the tree has a file; <<>> when there is none
TreeTarget(imp) ==
  LET candidate == replace_dots(strip(rstrip(strip(imp), ";")))
      groups == Split(candidate, <<>>)
      under(e) == SelectSeq([n \in 1..Len(groups) |->
                               [stem |-> groups[n], ext |-> IF n = Len(groups) THEN e ELSE ""]],
                            LAMBDA c : ~(c.stem = <<>> /\ c.ext = ""))
      hits == SelectSeq(ProbeExts, LAMBDA e : under(e) \in TreeFiles)
  IN IF hits = <<>> THEN <<>> ELSE under(Head(hits))

\* C8 (import resolution), as claimed: after a run without --dry-run the
\* IMPORTS edges written from a file are exactly those to the files under
\* the walked root that its import strings name.
C8_ImportResolution ==
  (pc = "done" /\ ~dry_run) =>
    \A n \in 1..Len(parsed_all) :
      LET rec == parsed_all[n]
          expected == {TreeTarget(imp) : imp \in Range(rec.imports)} \ {<<>>}
          actual == {log[m].file2 : m \in {l \in 1..Len(log) :
                       log[l].op = "ingest_import" /\ log[l].file = rec.file.path}}
      IN /\ actual = expected
         /\ \A t \in expected :
              BagIn(Edge("IMPORTS", FileNode(rec.file.path), FileNode(t)), graph.edges)

(* write failures *)

\* the calls of the ingestor the second pass has to make for every record
\* but record r
RECURSIVE WritesBut(_, _)
WritesBut(n, r) ==
  IF n > Len(parsed_all) THEN <<>>
  ELSE (IF n = r THEN <<>> ELSE RecordWrites(parsed_all[n], func_name_to_file, repo_root))
       \o WritesBut(n + 1, r)

\* C11 (write-failure recovery), as claimed: when a call of the ingestor has
\* raised during the second pass the run does not abort, and when it is over
\* every call for every other record has been made and the summary has been
\* printed.
C11_WriteFailureRecovery ==
  failed # <<>> =>
    /\ pc # "aborted"
    /\ pc = "done" =>
         /\ \A w \in Range(WritesBut(1, failed[1].rec)) : w \in Range(log)
         /\ summary # <<>>

(* the skip tally *)

\* the records so far of files of language l whose grammar is not loaded
SkippedFiles(l) ==
  {n \in 1..Len(parsed_all) : Lang(RecFiles[n]) = l /\ NoGrammar(RecFiles[n])}

\* C12 (skip tally), as claimed: at every point of the walk, and so at the
\* end of the run, the tally of a language key is the number of its files
\* scanned so far for which no grammar is loaded.
C12_SkipTally ==
  \A l \in ParserLangs : SKIPPED_COUNTS[l] = Cardinality(SkippedFiles(l))

(* call sites *)

\* the records the second pass has been through
Ingested ==
  IF dry_run THEN {}
  ELSE IF pc = "done" THEN 1..Len(parsed_all)
  ELSE IF pc = "ingest" THEN 1..(j - 1)
  ELSE {}

\* the file of the called function of a call site: the table's entry for the
\* called name, the caller's file when the table has none
ResolvedFile(fc) ==
  IF fc.called \in DOMAIN func_name_to_file
  THEN func_name_to_file[fc.called] ELSE fc.caller_file

\* the calls of the ingestor of one kind made for the call sites of a file
CallsLogged(op, caller_file) ==
  SelectSeq(log, LAMBDA w :
    /\ w.op = op
    /\ (IF op = "ingest_function_call" THEN w.file ELSE w.file2) = caller_file)

\* C13 (edge emission per call site): for a record the second pass has been
\* through, the USED_IN upserts made for its file are one per call site, in
\* order, each of (called, resolved file) into the caller's file, whether or
\* not the caller is known; the CALLS upserts are one per call site with a
\* known caller, in order, each from (caller, caller's file) to (called,
\* resolved file); the store holds each of these edges once, and no CALLS
\* edge from an unnamed caller.
C13_EdgeEmission ==
  /\ \A n \in Ingested :
       LET rec == parsed_all[n]
           sites == rec.function_calls
           known == SelectSeq(sites, LAMBDA fc : fc.caller # None)
           used == CallsLogged("ingest_function_used_in", rec.file.path)
           calls == CallsLogged("ingest_function_call", rec.file.path)
       IN /\ \A k \in 1..Len(sites) : sites[k].caller_file = rec.file.path
          /\ Len(used) = Len(sites)
          /\ \A k \in 1..Len(sites) :
               /\ used[k].name = sites[k].called
               /\ used[k].file = ResolvedFile(sites[k])
               /\ CopiesIn(Edge("USED_IN", FunctionNode(sites[k].called, ResolvedFile(sites[k])),
                                FileNode(rec.file.path)), graph.edges) = 1
          /\ Len(calls) = Len(known)
          /\ \A k \in 1..Len(known) :
               /\ calls[k].name = known[k].caller
               /\ calls[k].name2 = known[k].called
               /\ calls[k].file2 = ResolvedFile(known[k])
               /\ CopiesIn(Edge("CALLS", FunctionNode(known[k].caller, rec.file.path),
                                FunctionNode(known[k].called, ResolvedFile(known[k]))),
                           graph.edges) = 1
  /\ \A e \in BagToSet(graph.edges) : e.type = "CALLS" => e.from.name # None

\* b.py has call sites with a known caller, web/c.js (heuristic extractor)
\* has call sites without one
C13_Witness ==
  /\ pc = "done"
  /\ ~dry_run
  /\ \E n \in 1..Len(parsed_all) :
       /\ \E fc \in Range(parsed_all[n].function_calls) : fc.caller = None
       /\ Len(CallsLogged("ingest_function_used_in", parsed_all[n].file.path)) >= 2
       /\ CallsLogged("ingest_function_call", parsed_all[n].file.path) = <<>>
  /\ \E n \in 1..Len(parsed_all) :
       /\ Len(parsed_all[n].function_calls) >= 3
       /\ Len(CallsLogged("ingest_function_call", parsed_all[n].file.path)) >= 3
       /\ Len(CallsLogged("ingest_function_used_in", parsed_all[n].file.path)) >= 3

\* the Function ends of a relationship
FunctionEnds(e) == {n \in {e.from, e.to} : n.label = "Function"}

\* C14 (resolved-file rule): in every call of the ingestor made for a call
\* site, the file of the called function is the table's entry for the called
\* name when the table has one and the caller's file otherwise; it is never
\* missing, and no CALLS or USED_IN edge of the store has a Function end
\* whose file is the empty string.
C14_ResolvedFile ==
  /\ \A m \in 1..Len(log) :
       /\ log[m].op = "ingest_function_call" =>
            /\ log[m].file2 = (IF log[m].name2 \in DOMAIN func_name_to_file
                               THEN func_name_to_file[log[m].name2] ELSE log[m].file)
            /\ OrEmpty(log[m].file2) # <<>>
            /\ OrEmpty(log[m].file) # <<>>
       /\ log[m].op = "ingest_function_used_in" =>
            /\ log[m].file = (IF log[m].name \in DOMAIN func_name_to_file
                              THEN func_name_to_file[log[m].name] ELSE log[m].file2)
            /\ OrEmpty(log[m].file) # <<>>
  /\ \A e \in BagToSet(graph.edges) :
       e.type \in {"CALLS", "USED_IN"} => \A n \in FunctionEnds(e) : n.file # <<>>

\* main of b.py calls print, which no file defines: the called function is
\* keyed by b.py; it calls helper, which the table places in a.py
C14_Witness ==
  /\ pc = "done"
  /\ ~dry_run
  /\ "print" \notin DOMAIN func_name_to_file
  /\ \E m \in 1..Len(log) :
       /\ log[m].op = "ingest_function_call"
       /\ log[m].name2 = "print"
       /\ log[m].file2 = log[m].file
  /\ \E m \in 1..Len(log) :
       /\ log[m].op = "ingest_function_used_in"
       /\ log[m].name = "helper"
       /\ log[m].file # log[m].file2
  /\ BagIn(Edge("USED_IN", FunctionNode("print", ExtractorKey(B_PY)), FileNode(ExtractorKey(B_PY))),
           graph.edges)

(* collisions *)

\* the position of a file in the walk
RECURSIVE Position(_, _)
Position(f, n) == IF walk[n] = f THEN n ELSE Position(f, n + 1)

\* the greatest element of a non-empty set of numbers
Last(S) == CHOOSE n \in S : \A m \in S : m <= n

\* C15 (collision tie-break): at every point of the first pass and after it,
\* the table's entry for a name is the file of the record built last among
\* the records so far that define the name, so a later definition has
\* overwritten every earlier one; once the walk is over the entry of a name
\* defined in several files is the file the traversal visited last among
\* them, and not the first.
C15_LastWriteWins ==
  /\ DOMAIN func_name_to_file =
       {fun.name : fun \in UNION {Range(parsed_all[n].functions) : n \in 1..Len(parsed_all)}}
  /\ \A h \in DOMAIN func_name_to_file :
       /\ func_name_to_file[h] = parsed_all[Last(DefinersOf(h))].file.path
       /\ (pc \in {"ingest", "done"} /\ Cardinality(DefinersOf(h)) >= 2) =>
            LET files == {f \in TreeFiles : \E n \in DefinersOf(h) : RecFiles[n] = f}
                lastf == CHOOSE f \in files : \A g \in files : Position(g, 1) <= Position(f, 1)
                firstf == CHOOSE f \in files : \A g \in files : Position(f, 1) <= Position(g, 1)
            IN /\ func_name_to_file[h] = ExtractorKey(lastf)
               /\ func_name_to_file[h] # ExtractorKey(firstf)

\* run is defined by a.py and by b.py; a.py is walked first and the entry
\* is b.py, which a call site of web/c.js is resolved to
C15_Witness ==
  /\ pc = "done"
  /\ ~dry_run
  /\ Position(A_PY, 1) < Position(B_PY, 1)
  /\ Cardinality(DefinersOf("run")) = 2
  /\ func_name_to_file["run"] = ExtractorKey(B_PY)
  /\ \E m \in 1..Len(log) :
       /\ log[m].op = "ingest_function_used_in"
       /\ log[m].name = "run"
       /\ log[m].file = ExtractorKey(B_PY)
       /\ log[m].file2 = ExtractorKey(C_JS)

====
